---- MODULE Spec2Model ----
(* Workout-mutation API of strive-workout-tracker (server/index.js) over   *)
(* the relational schema of database/schema.sql.  One action per request   *)
(* handler; the multi-statement handler PATCH /api/workout/:workoutId is   *)
(* split at its independent db.query statements.                           *)
EXTENDS Bags, FiniteSets, Integers, Sequences, TLC

VARIABLES workouts, sets, nextWorkoutId, inflight, last

vars == <<workouts, sets, nextWorkoutId, inflight, last>>

----------------------------------------------------------------------------
(* Bounds of the model *)

\* most rows the "sets" table holds
MaxSets == 2

----------------------------------------------------------------------------
(* Schema values *)

\* SQL NULL in an int / numeric / timestamptz column
NULL == -1

\* SQL NULL in the text column "workoutName" (JS undefined / missing field)
NoName == "NULL"

\* rows of "users" and "exercises": reference data, never written here
Users == {1, 2}
Exercises == {1, 2}

\* the serial values "workoutId" hands out
WorkoutIds == {1, 2}

----------------------------------------------------------------------------
(* Request inputs.  Workout 1 is the workout being edited (sets recorded,   *)
(* exercises swapped and removed, completed); workout 2 is another workout, *)
(* of either user, that is created, given exercises and purged.             *)

EditedWorkouts == {1}

\* exercise 3 names no row of "exercises"
NewExerciseInputs == Exercises \cup {3}

\* new Date()
Timestamps == {1}

\* bodies of POST /api/workout/new-exercises: the exerciseIds array
ExerciseIdLists == {<< >>, <<1>>, <<2>>, <<1, 1>>, <<1, 3>>}

\* bodies of PATCH /api/workout/:workoutId: <<exercises, workoutName>>
SetEntry(so, reps, weight) == [setOrder |-> so, reps |-> reps, weight |-> weight]
ExerciseEntry(e, s) == [exerciseId |-> e, sets |-> s]
Requests ==
  {<<<< >>, "A">>,
   <<<<ExerciseEntry(1, <<SetEntry(1, 5, 100), SetEntry(2, 5, 100)>>)>>, NoName>>,
   <<<<ExerciseEntry(1, <<SetEntry(1, 5, 100)>>)>>, "A">>}

\* a body whose last statement fails: two sets of exercise 1 and a set of
\* exercise 3, which names no row of "exercises"
FailingRequests ==
  {<<<<ExerciseEntry(1, <<SetEntry(1, 3, 150), SetEntry(2, 3, 150)>>),
       ExerciseEntry(3, <<SetEntry(2, 3, 150)>>)>>, NoName>>}

----------------------------------------------------------------------------
(* Rows and bag helpers *)

SetRow(w, e, so, reps, weight) ==
  [workoutId |-> w, exerciseId |-> e, setOrder |-> so, reps |-> reps, weight |-> weight]

WorkoutRow(u, name) ==
  [userId |-> u, completedAt |-> NULL, workoutName |-> name]

\* the rows of bag b selected by a where-clause (rows: the rows that satisfy it)
Where(b, rows) == [r \in rows \cap DOMAIN b |-> b[r]]

\* a bag holding n copies of row r
Copies(r, n) == IF n > 0 THEN [x \in {r} |-> n] ELSE EmptyBag

RECURSIVE SeqToBag(_)
SeqToBag(s) == IF s = <<>> THEN EmptyBag ELSE Copies(Head(s), 1) (+) SeqToBag(Tail(s))

\* foreign keys of "sets"
WorkoutExists(w) == w \in DOMAIN workouts
ExerciseExists(e) == e \in Exercises

\* what the last step did: the handler (or statement) that ran, the HTTP status
\* it sent (0: none), whether it reached db.query, and the result's rowCount
Response(op, status, queried, rowCount) ==
  [op |-> op, status |-> status, queried |-> queried, rowCount |-> rowCount]

\* no PATCH /api/workout/:workoutId request has statements outstanding
NoRequest == [workoutId |-> 0, workoutName |-> NoName, pending |-> EmptyBag, failed |-> FALSE]

----------------------------------------------------------------------------
Init ==
  /\ workouts = << >>
  /\ sets = EmptyBag
  /\ nextWorkoutId = 1
  /\ inflight = NoRequest
  /\ last = Response("init", 0, FALSE, 0)

----------------------------------------------------------------------------
(* GET /api/user/all-workouts and the purge's where-clause *)

AllWorkouts(u) ==
  {w \in DOMAIN workouts : workouts[w].userId = u /\ workouts[w].completedAt # NULL}


\* mutants: a purge that forgets the owner, or the "completedAt" is null test
EmptyWorkoutsOfAnyUser(u) ==
  {w \in DOMAIN workouts : workouts[w].completedAt = NULL}

EmptyWorkoutsCompletedToo(u) ==
  {w \in DOMAIN workouts : workouts[w].userId = u}

EmptyWorkouts(u) ==
  {w \in DOMAIN workouts : workouts[w].userId = u /\ workouts[w].completedAt = NULL}

----------------------------------------------------------------------------
(* POST /api/new-workout *)

NewWorkout(u, name) ==
  IF u = 0
  THEN /\ last' = Response("new-workout", 400, FALSE, 0)
       /\ UNCHANGED <<workouts, sets, nextWorkoutId, inflight>>
  ELSE /\ nextWorkoutId \in WorkoutIds
       /\ workouts' = [w \in DOMAIN workouts \cup {nextWorkoutId} |->
                         IF w = nextWorkoutId THEN WorkoutRow(u, name) ELSE workouts[w]]
       /\ nextWorkoutId' = nextWorkoutId + 1
       /\ last' = Response("new-workout", 201, TRUE, 1)
       /\ UNCHANGED <<sets, inflight>>

----------------------------------------------------------------------------
(* DELETE /api/user/empty-workouts *)


\* mutant: a purge whose outer delete removes no set row
PurgedSetsNone(deleted) == EmptyBag

PurgedSets(deleted) == Where(sets, {r \in DOMAIN sets : r.workoutId \in deleted})

EmptyWorkoutsDelete(u) ==
  IF u = 0
  THEN /\ last' = Response("empty-workouts", 400, FALSE, 0)
       /\ UNCHANGED <<workouts, sets, nextWorkoutId, inflight>>
  ELSE LET deleted == EmptyWorkouts(u)
       IN /\ workouts' = [w \in DOMAIN workouts \ deleted |-> workouts[w]]
          /\ sets' = sets (-) PurgedSets(deleted)
          /\ last' = Response("empty-workouts", 204, TRUE,
                              BagCardinality(PurgedSets(deleted)))
          /\ UNCHANGED <<nextWorkoutId, inflight>>

----------------------------------------------------------------------------
(* POST /api/workout/new-exercises *)


\* mutant: the batch numbers its rows instead of giving each setOrder 1
NewSetsNumbered(w, exerciseIds) ==
  SeqToBag([i \in 1 .. Len(exerciseIds) |-> SetRow(w, exerciseIds[i], i, NULL, NULL)])

NewSets(w, exerciseIds) ==
  SeqToBag([i \in 1 .. Len(exerciseIds) |-> SetRow(w, exerciseIds[i], 1, NULL, NULL)])

\* sets_fk0 and sets_fk1 on every row of the one insert statement
BatchAccepted(w, exerciseIds) ==
  WorkoutExists(w) /\ \A i \in 1 .. Len(exerciseIds) : ExerciseExists(exerciseIds[i])


\* mutant: a rejected batch keeps the rows that passed their constraints
InsertedSetsPartial(w, exerciseIds) ==
  IF WorkoutExists(w)
  THEN NewSets(w, SelectSeq(exerciseIds, ExerciseExists))
  ELSE EmptyBag

\* the rows the statement leaves in "sets": all of them or none
InsertedSets(w, exerciseIds) ==
  IF BatchAccepted(w, exerciseIds) THEN NewSets(w, exerciseIds) ELSE EmptyBag

NewExercises(w, exerciseIds) ==
  IF w = 0 \/ Len(exerciseIds) < 1
  THEN /\ last' = Response("new-exercises", 400, FALSE, 0)
       /\ UNCHANGED <<workouts, sets, nextWorkoutId, inflight>>
  ELSE /\ BagCardinality(sets) + BagCardinality(InsertedSets(w, exerciseIds)) <= MaxSets
       /\ sets' = sets (+) InsertedSets(w, exerciseIds)
       /\ last' = IF BatchAccepted(w, exerciseIds)
                  THEN Response("new-exercises", 201, TRUE, Len(exerciseIds))
                  ELSE Response("new-exercises", 500, TRUE, 0)
       /\ UNCHANGED <<workouts, nextWorkoutId, inflight>>

----------------------------------------------------------------------------
(* PATCH /api/workout/:workoutId/exercise/:exerciseId *)

SwappedSets(w, e) == Where(sets, {r \in DOMAIN sets : r.workoutId = w /\ r.exerciseId = e})


\* mutant: the swap resets the rewritten rows to unfilled sets
ReplacedUnfilled(w, e, newExerciseId) ==
  LET orders == {r.setOrder : r \in DOMAIN SwappedSets(w, e)}
  IN [r \in {SetRow(w, newExerciseId, so, NULL, NULL) : so \in orders} |->
       BagCardinality(Where(SwappedSets(w, e), {x \in DOMAIN SwappedSets(w, e) : x.setOrder = r.setOrder}))]

Replaced(w, e, newExerciseId) ==
  LET old == SwappedSets(w, e)
      rows == {[r EXCEPT !.exerciseId = newExerciseId] : r \in DOMAIN old}
  IN [n \in rows |-> old[[n EXCEPT !.exerciseId = e]]]

SwapExercise(w, e, newExerciseId) ==
  IF w = 0 \/ e = 0
  THEN /\ last' = Response("swap-exercise", 400, FALSE, 0)
       /\ UNCHANGED <<workouts, sets, nextWorkoutId, inflight>>
  ELSE IF SwappedSets(w, e) # EmptyBag /\ ~ExerciseExists(newExerciseId)
  THEN /\ last' = Response("swap-exercise", 500, TRUE, 0)
       /\ UNCHANGED <<workouts, sets, nextWorkoutId, inflight>>
  ELSE /\ sets' = (sets (-) SwappedSets(w, e)) (+) Replaced(w, e, newExerciseId)
       /\ last' = Response("swap-exercise", 204, TRUE,
                           BagCardinality(SwappedSets(w, e)))
       /\ UNCHANGED <<workouts, nextWorkoutId, inflight>>

----------------------------------------------------------------------------
(* PATCH /api/workout/:workoutId/completed *)

Completed(w, name, date) ==
  IF w = 0
  THEN /\ last' = Response("completed", 400, FALSE, 0)
       /\ UNCHANGED <<workouts, sets, nextWorkoutId, inflight>>
  ELSE /\ workouts' = [x \in DOMAIN workouts |->
                         IF x = w
                         THEN [workouts[x] EXCEPT !.completedAt = date, !.workoutName = name]
                         ELSE workouts[x]]
       /\ last' = Response("completed", 204, TRUE,
                           IF WorkoutExists(w) THEN 1 ELSE 0)
       /\ UNCHANGED <<sets, nextWorkoutId, inflight>>

----------------------------------------------------------------------------
(* DELETE /api/workout/:workoutId/exercise/:exerciseId *)


\* mutant: the delete removes the first set of the pair only
RemovedSetsFirst(w, e) ==
  Where(sets, {r \in DOMAIN sets : r.workoutId = w /\ r.exerciseId = e /\ r.setOrder = 1})

RemovedSets(w, e) == Where(sets, {r \in DOMAIN sets : r.workoutId = w /\ r.exerciseId = e})

RemoveExercise(w, e) ==
  IF w = 0 \/ e = 0
  THEN /\ last' = Response("remove-exercise", 400, FALSE, 0)
       /\ UNCHANGED <<workouts, sets, nextWorkoutId, inflight>>
  ELSE /\ sets' = sets (-) RemovedSets(w, e)
       /\ last' = Response("remove-exercise", 204, TRUE,
                           BagCardinality(RemovedSets(w, e)))
       /\ UNCHANGED <<workouts, nextWorkoutId, inflight>>

----------------------------------------------------------------------------
(* PATCH /api/workout/:workoutId *)

\* one db.query of the handler, not yet executed by the store
Statement(kind, e, so, reps, weight, name) ==
  [kind |-> kind, exerciseId |-> e, setOrder |-> so, reps |-> reps,
   weight |-> weight, workoutName |-> name]

\* sets.map: one update (setOrder 1) or insert (otherwise) per set entry
RECURSIVE SetPromises(_, _)
SetPromises(e, s) ==
  IF s = << >> THEN EmptyBag
  ELSE LET set == Head(s)
       IN Copies(Statement(IF set.setOrder = 1 THEN "update" ELSE "insert",
                           e, set.setOrder, set.reps, set.weight, NoName), 1)
            (+) SetPromises(e, Tail(s))

\* exercises.flatMap: the set statements of every exercise and, inside the
\* callback, the name update when a workoutName was sent
RECURSIVE ExercisePromises(_, _)
ExercisePromises(exercises, name) ==
  IF exercises = << >> THEN EmptyBag
  ELSE SetPromises(Head(exercises).exerciseId, Head(exercises).sets)
         (+) (IF name # NoName
              THEN Copies(Statement("name", 0, 0, NULL, NULL, name), 1)
              ELSE EmptyBag)
         (+) ExercisePromises(Tail(exercises), name)

\* Promise.all over the statements executed so far: rejected (500) by a failed
\* statement unless already rejected, fulfilled (204) by the last success,
\* 0 while the request stays open
Settled(failed, ok, left) ==
  IF ~ok THEN (IF failed THEN 0 ELSE 500)
  ELSE IF left = EmptyBag /\ ~failed THEN 204 ELSE 0

\* mutant: a failed statement cancels the statements still outstanding
ExecutedAborting(s, ok) ==
  LET left == inflight.pending (-) Copies(s, 1)
  IN IF left = EmptyBag \/ ~ok THEN NoRequest
     ELSE [inflight EXCEPT !.pending = left]

\* the request after statement s has run
Executed(s, ok) ==
  LET left == inflight.pending (-) Copies(s, 1)
  IN IF left = EmptyBag THEN NoRequest
     ELSE [inflight EXCEPT !.pending = left, !.failed = @ \/ ~ok]

\* the handler up to Promise.all: every statement is handed to the pool
UpdateWorkout(w, hasExercises, exercises, name) ==
  /\ inflight = NoRequest
  /\ IF ~hasExercises
     THEN /\ last' = Response("update-workout", 400, FALSE, 0)
          /\ UNCHANGED <<workouts, sets, nextWorkoutId, inflight>>
     ELSE LET promises == ExercisePromises(exercises, name)
          IN /\ inflight' = IF promises = EmptyBag THEN NoRequest
                            ELSE [workoutId |-> w, workoutName |-> name,
                                  pending |-> promises, failed |-> FALSE]
             /\ last' = Response("update-workout",
                                 IF promises = EmptyBag THEN 204 ELSE 0,
                                 promises # EmptyBag, 0)
             /\ UNCHANGED <<workouts, sets, nextWorkoutId>>

UpdatedSets(w, s) ==
  Where(sets, {r \in DOMAIN sets : r.setOrder = s.setOrder /\ r.workoutId = w
                           /\ r.exerciseId = s.exerciseId})


\* mutant: the update inserts the row when none matches (an upsert)
UpdatedToOrInserted(w, s) ==
  Copies(SetRow(w, s.exerciseId, s.setOrder, s.reps, s.weight),
         IF UpdatedSets(w, s) = EmptyBag THEN 1 ELSE BagCardinality(UpdatedSets(w, s)))

\* the rows "set reps = $1, weight = $2" turns them into
UpdatedTo(w, s) ==
  Copies(SetRow(w, s.exerciseId, s.setOrder, s.reps, s.weight),
         BagCardinality(UpdatedSets(w, s)))

\* updateSql
UpdateSet(s) ==
  LET w == inflight.workoutId
      n == BagCardinality(UpdatedSets(w, s))
  IN /\ s.kind = "update"
     /\ sets' = (sets (-) UpdatedSets(w, s)) (+) UpdatedTo(w, s)
     /\ inflight' = Executed(s, TRUE)
     /\ last' = Response("update-set",
                         Settled(inflight.failed, TRUE, inflight.pending (-) Copies(s, 1)),
                         TRUE, n)
     /\ UNCHANGED <<workouts, nextWorkoutId>>


\* mutant: the insert adds nothing when the pair already has that setOrder
AddedSetsOnce(w, s) ==
  IF UpdatedSets(w, s) = EmptyBag
  THEN Copies(SetRow(w, s.exerciseId, s.setOrder, s.reps, s.weight), 1)
  ELSE EmptyBag

\* the row "insert into sets ... values ($1, $2, $3, $4, $5)" adds
AddedSets(w, s) ==
  Copies(SetRow(w, s.exerciseId, s.setOrder, s.reps, s.weight), 1)

\* addSql
AddSet(s) ==
  LET w == inflight.workoutId
      ok == WorkoutExists(w) /\ ExerciseExists(s.exerciseId)
  IN /\ s.kind = "insert"
     /\ ok => BagCardinality(sets) < MaxSets
     /\ sets' = IF ok THEN sets (+) AddedSets(w, s) ELSE sets
     /\ inflight' = Executed(s, ok)
     /\ last' = Response("add-set",
                         Settled(inflight.failed, ok, inflight.pending (-) Copies(s, 1)),
                         TRUE, IF ok THEN 1 ELSE 0)
     /\ UNCHANGED <<workouts, nextWorkoutId>>

\* nameSql
UpdateName(s) ==
  LET w == inflight.workoutId
  IN /\ s.kind = "name"
     /\ workouts' = [x \in DOMAIN workouts |->
                       IF x = w THEN [workouts[x] EXCEPT !.workoutName = s.workoutName]
                       ELSE workouts[x]]
     /\ inflight' = Executed(s, TRUE)
     /\ last' = Response("update-name",
                         Settled(inflight.failed, TRUE, inflight.pending (-) Copies(s, 1)),
                         TRUE, IF WorkoutExists(w) THEN 1 ELSE 0)
     /\ UNCHANGED <<sets, nextWorkoutId>>

----------------------------------------------------------------------------
(* GET /api/user/workout-sets *)

\* "reps" * "weight" as "volume"
Volume(r) == r.reps * r.weight

\* sets join workouts join exercises where reps and weight are not null and
\* "userId" = $1, grouped by every selected column: the distinct joined rows
BestSetCTE(u) ==
  {r \in DOMAIN sets : /\ r.reps # NULL
                       /\ r.weight # NULL
                       /\ WorkoutExists(r.workoutId)
                       /\ ExerciseExists(r.exerciseId)
                       /\ workouts[r.workoutId].userId = u}

\* partition by "workoutId", "exerciseId"
Partition(u, w, e) == {r \in BestSetCTE(u) : r.workoutId = w /\ r.exerciseId = e}


\* mutant: the window orders by "weight" desc instead of the volume
RowNumberOneByWeight(partition) ==
  {r \in partition : \A q \in partition : q.weight <= r.weight}

\* order by "reps" * "weight" desc, where "row_number" = 1: the rows of the
\* partition the window may number 1 (equal volumes are ordered arbitrarily)
RowNumberOne(partition) ==
  {r \in partition : \A q \in partition : Volume(q) <= Volume(r)}

\* count("sets".*) of the filled rows of the pair, duplicates included
TotalSets(u, w, e) == BagCardinality(Where(sets, Partition(u, w, e)))

\* "totalSetsCTE": the pairs of the user's workouts that have a filled row
TotalSetsCTE(u) == {<<r.workoutId, r.exerciseId>> : r \in BestSetCTE(u)}

\* one row of the final select
StatRow(u, r) ==
  [workoutId |-> r.workoutId, exerciseId |-> r.exerciseId,
   reps |-> r.reps, weight |-> r.weight,
   totalSets |-> TotalSets(u, r.workoutId, r.exerciseId),
   workoutName |-> workouts[r.workoutId].workoutName,
   completedAt |-> workouts[r.workoutId].completedAt]

\* the results the statement can return: per pair of "totalSetsCTE" the row
\* that the window numbered 1
WorkoutSetsRows(u) ==
  {{StatRow(u, best[p]) : p \in TotalSetsCTE(u)} :
     best \in {f \in [TotalSetsCTE(u) -> BestSetCTE(u)] :
                 \A p \in TotalSetsCTE(u) : f[p] \in RowNumberOne(Partition(u, p[1], p[2]))}}

\* res.status(200).json(result.rows)
RowsResponse(op, rows) ==
  [op |-> op, status |-> 200, queried |-> TRUE, rowCount |-> Cardinality(rows),
   rows |-> rows]

WorkoutSets(u) ==
  IF u = 0
  THEN /\ last' = Response("workout-sets", 400, FALSE, 0)
       /\ UNCHANGED <<workouts, sets, nextWorkoutId, inflight>>
  ELSE /\ \E rows \in WorkoutSetsRows(u) : last' = RowsResponse("workout-sets", rows)
       /\ UNCHANGED <<workouts, sets, nextWorkoutId, inflight>>

----------------------------------------------------------------------------
Next ==
  \/ \E u \in Users : NewWorkout(u, NoName)
  \/ \E u \in Users : WorkoutSets(u)
  \/ \E u \in Users : EmptyWorkoutsDelete(u)
  \/ \E w \in WorkoutIds, exerciseIds \in ExerciseIdLists : NewExercises(w, exerciseIds)
  \/ \E w \in EditedWorkouts, e \in Exercises, newExerciseId \in NewExerciseInputs :
       SwapExercise(w, e, newExerciseId)
  \/ \E w \in EditedWorkouts, date \in Timestamps : Completed(w, "A", date)
  \/ \E w \in EditedWorkouts, e \in Exercises : RemoveExercise(w, e)
  \/ \E w \in EditedWorkouts, hasExercises \in BOOLEAN, r \in Requests :
       UpdateWorkout(w, hasExercises, r[1], r[2])
  \/ \E s \in DOMAIN inflight.pending : UpdateSet(s)
  \/ \E s \in DOMAIN inflight.pending : AddSet(s)
  \/ \E s \in DOMAIN inflight.pending : UpdateName(s)

Spec == Init /\ [][Next]_vars

\* the handlers when requests with a failing statement are sent as well
NextFailing ==
  \/ Next
  \/ \E w \in EditedWorkouts, r \in FailingRequests : UpdateWorkout(w, TRUE, r[1], r[2])

SpecFailing == Init /\ [][NextFailing]_vars

----------------------------------------------------------------------------
(* The statistics query over stored workouts: two workouts of different     *)
(* users, and any table of at most MaxStatRows set rows.                    *)

\* most rows the "sets" table holds when the statistics are queried
MaxStatRows == 3

\* <<reps, weight>> recorded in a set row: 5 x 100 = 500 is the largest volume,
\* 3 x 150 has the largest weight, 6 x 80 the most reps; the others are unfilled
StatValues == {<<5, 100>>, <<3, 150>>, <<6, 80>>, <<NULL, NULL>>, <<NULL, 100>>, <<5, NULL>>}

StatSets ==
  {SetRow(w, e, 1, v[1], v[2]) : w \in WorkoutIds, e \in Exercises, v \in StatValues}

InitStats ==
  /\ workouts = [w \in WorkoutIds |-> WorkoutRow(w, NoName)]
  /\ sets \in {SeqToBag(s) : s \in UNION {[1 .. n -> StatSets] : n \in 0 .. MaxStatRows}}
  /\ nextWorkoutId = 3
  /\ inflight = NoRequest
  /\ last = Response("init", 0, FALSE, 0)

NextStats == \E u \in Users : WorkoutSets(u)

SpecStats == InitStats /\ [][NextStats]_vars

----------------------------------------------------------------------------
(* Properties *)

\* every row value of "sets" before or after a step
Rows == DOMAIN sets \cup DOMAIN sets'

\* how many rows of bag b belong to pair (w, e) and have setOrder so
PairOrderCount(b, w, e, so) ==
  BagCardinality(Where(b, {r \in DOMAIN b : r.workoutId = w /\ r.exerciseId = e /\ r.setOrder = so}))

\* how often exercise e is listed in exerciseIds
Listed(exerciseIds, e) == Cardinality({i \in 1 .. Len(exerciseIds) : exerciseIds[i] = e})

\* C1: a purge for user u removes exactly u's workouts with completedAt null
\* and every set row of those workouts; every other workout row (completed, or
\* of another user) and every set row of a surviving workout is unchanged.
C1_PurgeRemovesExactlyEmptyWorkouts ==
  [][\A u \in Users :
       last'.op = "empty-workouts" /\ EmptyWorkoutsDelete(u) =>
         LET gone == {w \in DOMAIN workouts :
                        workouts[w].userId = u /\ workouts[w].completedAt = NULL}
         IN /\ DOMAIN workouts' = DOMAIN workouts \ gone
            /\ \A w \in DOMAIN workouts' : workouts'[w] = workouts[w]
            /\ \A r \in Rows :
                 CopiesIn(r, sets') = IF r.workoutId \in gone THEN 0 ELSE CopiesIn(r, sets)]_vars

\* a purge has just deleted set rows with their workout while an in-progress
\* workout (of the other user) and its set rows survive
C1_Witness ==
  /\ last.op = "empty-workouts" /\ last.rowCount > 0
  /\ \E w \in DOMAIN workouts :
       /\ workouts[w].completedAt = NULL
       /\ \E r \in DOMAIN sets : r.workoutId = w

\* C2: completion is one-way.  A successful Complete leaves a non-null
\* completedAt, and a workout whose completedAt is non-null keeps existing with
\* a non-null completedAt across every step: it stays in its owner's
\* all-workouts result and outside every user's purge selection.
C2_CompletionIsOneWay ==
  [][/\ \A w \in EditedWorkouts, date \in Timestamps :
          last'.op = "completed" /\ Completed(w, "A", date) /\ WorkoutExists(w) =>
            w \in DOMAIN workouts' /\ workouts'[w].completedAt # NULL
     /\ \A w \in DOMAIN workouts :
          workouts[w].completedAt # NULL =>
            /\ w \in DOMAIN workouts'
            /\ workouts'[w].completedAt # NULL
            /\ workouts'[w].userId = workouts[w].userId
            /\ w \in AllWorkouts(workouts[w].userId)'
            /\ \A u \in Users : w \notin EmptyWorkouts(u)']_vars

\* a purge has just run and deleted set rows while a completed workout exists
C2_Witness ==
  /\ last.op = "empty-workouts" /\ last.rowCount > 0
  /\ \E w \in DOMAIN workouts : workouts[w].completedAt # NULL

\* C3: referential integrity.  In every reachable state every set row names an
\* existing workout and an existing exercise.
C3_ReferentialIntegrity ==
  \A r \in DOMAIN sets : WorkoutExists(r.workoutId) /\ ExerciseExists(r.exerciseId)

\* an insert of an open PATCH request has just run after its workout was purged
\* and was rejected, while set rows of other workouts exist
C3_Witness ==
  /\ last.op = "add-set" /\ last.rowCount = 0
  /\ inflight.failed
  /\ inflight.workoutId < nextWorkoutId
  /\ ~WorkoutExists(inflight.workoutId)
  /\ sets # EmptyBag

\* C4: a successful attach of a non-empty list to workout w adds one row
\* (w, e, setOrder 1, reps null, weight null) per listed identifier e, adds no
\* other row and changes no existing set row and no workout row.
C4_AttachAddsOneFirstSetPerExercise ==
  [][\A w \in WorkoutIds, exerciseIds \in ExerciseIdLists :
       last'.status = 201 /\ NewExercises(w, exerciseIds) =>
         /\ Len(exerciseIds) >= 1
         /\ \A r \in Rows :
              CopiesIn(r, sets') =
                CopiesIn(r, sets)
                  + (IF r = SetRow(w, r.exerciseId, 1, NULL, NULL)
                     THEN Listed(exerciseIds, r.exerciseId) ELSE 0)
         /\ \A e \in Exercises :
              Listed(exerciseIds, e) > 0 => SetRow(w, e, 1, NULL, NULL) \in DOMAIN sets'
         /\ workouts' = workouts]_vars

\* an attach has just succeeded on a store that already held set rows
C4_Witness ==
  /\ last.op = "new-exercises" /\ last.status = 201
  /\ BagCardinality(sets) > last.rowCount

\* C5: a failing attach creates no row.  An empty list is answered 400 before
\* any query; a batch with an unknown workout or an unknown exercise is
\* rejected as a whole and leaves "sets" as it was.
C5_FailedAttachCreatesNothing ==
  [][\A w \in WorkoutIds, exerciseIds \in ExerciseIdLists :
       last'.op = "new-exercises" /\ NewExercises(w, exerciseIds) =>
         /\ last'.status # 201 => sets' = sets /\ workouts' = workouts
         /\ Len(exerciseIds) = 0 => last'.status = 400 /\ ~last'.queried
         /\ ( /\ Len(exerciseIds) > 0
              /\ \/ w \notin DOMAIN workouts
                 \/ \E i \in 1 .. Len(exerciseIds) : exerciseIds[i] \notin Exercises )
              => last'.status = 500 /\ sets' = sets]_vars

\* a batch naming a known and an unknown exercise has just been rejected for an
\* existing workout (both workouts exist)
C5_Witness ==
  /\ last.op = "new-exercises" /\ last.status = 500
  /\ DOMAIN workouts = WorkoutIds

\* C6: a setOrder-1 entry of the PATCH request never changes the number of set
\* rows.  The rows (w, e, 1) are as many after as before and carry the entry's
\* reps and weight, every other row is unchanged, no workout row changes, and
\* with no matching row nothing changes at all; the statement never fails, so
\* a request it ends without an earlier failure is answered 204.
C6_FirstSetUpdatedInPlace ==
  [][\A s \in DOMAIN inflight.pending :
       last'.op = "update-set" /\ UpdateSet(s) /\ s.setOrder = 1 =>
         LET w == inflight.workoutId
             e == s.exerciseId
         IN /\ BagCardinality(sets') = BagCardinality(sets)
            /\ PairOrderCount(sets', w, e, 1) = PairOrderCount(sets, w, e, 1)
            /\ \A r \in DOMAIN sets' :
                 r.workoutId = w /\ r.exerciseId = e /\ r.setOrder = 1
                   => r.reps = s.reps /\ r.weight = s.weight
            /\ \A r \in Rows :
                 ~(r.workoutId = w /\ r.exerciseId = e /\ r.setOrder = 1)
                   => CopiesIn(r, sets') = CopiesIn(r, sets)
            /\ PairOrderCount(sets, w, e, 1) = 0 => sets' = sets
            /\ workouts' = workouts
            /\ last'.status # 500
            /\ inflight' = NoRequest /\ ~inflight.failed => last'.status = 204]_vars

\* a setOrder-1 update has just matched no row and its request was answered 204
C6_Witness ==
  /\ last.op = "update-set" /\ last.rowCount = 0 /\ last.status = 204

\* C7: a setOrder > 1 entry for an existing workout and exercise inserts
\* exactly one new row with the entry's setOrder, reps and weight and changes
\* no existing row, also when such a row is already there.
C7_LaterSetsAlwaysInserted ==
  [][\A s \in DOMAIN inflight.pending :
       ( /\ last'.op = "add-set"
         /\ AddSet(s)
         /\ s.setOrder > 1
         /\ WorkoutExists(inflight.workoutId)
         /\ ExerciseExists(s.exerciseId) ) =>
         /\ \A r \in Rows :
              CopiesIn(r, sets') =
                CopiesIn(r, sets)
                  + (IF r = SetRow(inflight.workoutId, s.exerciseId, s.setOrder, s.reps, s.weight)
                     THEN 1 ELSE 0)
         /\ BagCardinality(sets') = BagCardinality(sets) + 1
         /\ workouts' = workouts]_vars

\* the same setOrder-2 entry has been submitted twice: the pair holds two rows
\* with setOrder 2 right after an insert
C7_Witness ==
  /\ last.op = "add-set" /\ last.rowCount = 1
  /\ \E r \in DOMAIN sets : r.setOrder = 2 /\ sets[r] >= 2

\* C8: when a PATCH request that sent a workoutName for an existing workout is
\* answered 204, the workout's workoutName is the name sent (also with an empty
\* exercises array).
C8_NameUpdatedWhenSupplied ==
  [][/\ \A w \in EditedWorkouts, r \in Requests :
          ( /\ last'.op = "update-workout"
            /\ last'.status = 204
            /\ UpdateWorkout(w, TRUE, r[1], r[2])
            /\ r[2] # NoName
            /\ w \in DOMAIN workouts' ) => workouts'[w].workoutName = r[2]
     /\ ( /\ inflight # NoRequest
          /\ last'.op \in {"update-set", "add-set", "update-name"}
          /\ last'.status = 204
          /\ inflight.workoutName # NoName
          /\ inflight.workoutId \in DOMAIN workouts' )
          => workouts'[inflight.workoutId].workoutName = inflight.workoutName]_vars

\* C9: removing exercise e from workout w deletes every set row of the pair
\* and leaves every other set row and every workout row unchanged.
C9_RemoveDeletesExactlyThePair ==
  [][\A w \in EditedWorkouts, e \in Exercises :
       last'.op = "remove-exercise" /\ RemoveExercise(w, e) =>
         /\ \A r \in Rows :
              CopiesIn(r, sets') =
                IF r.workoutId = w /\ r.exerciseId = e THEN 0 ELSE CopiesIn(r, sets)
         /\ workouts' = workouts]_vars

\* a remove has just deleted rows of its pair and another set row is left
C9_Witness ==
  /\ last.op = "remove-exercise" /\ last.rowCount > 0
  /\ sets # EmptyBag

\* the rows of bag b after the rows of pair (w, e) moved to exercise n
Moved(b, r, w, e, n) ==
  (IF r.workoutId = w /\ r.exerciseId = e THEN 0 ELSE CopiesIn(r, b))
    + (IF r.workoutId = w /\ r.exerciseId = n
       THEN CopiesIn([r EXCEPT !.exerciseId = e], b) ELSE 0)

\* the frame of a swap of pair (w, e) to exercise n: only the exerciseId of the
\* pair's rows changes
SwapFrame(w, e, n) ==
  /\ BagCardinality(sets') = BagCardinality(sets)
  /\ \A r \in Rows : CopiesIn(r, sets') = Moved(sets, r, w, e, n)
  /\ workouts' = workouts

\* C10 as stated: a swap changes only the exerciseId of the pair's rows, and
\* with a replacement that is no existing exercise it is rejected and changes
\* no set row.
C10_SwapRejectsUnknownExercise ==
  [][\A w \in EditedWorkouts, e \in Exercises, n \in NewExerciseInputs :
       last'.op = "swap-exercise" /\ SwapExercise(w, e, n) =>
         IF ExerciseExists(n)
         THEN last'.status = 204 /\ SwapFrame(w, e, n)
         ELSE last'.status # 204 /\ sets' = sets]_vars

\* C10 amended: a swap changes only the exerciseId of the pair's rows; with a
\* replacement that is no existing exercise no set row changes, and the
\* request is rejected exactly when the pair has a set row (with none it is
\* answered 204).
C10_SwapRewritesOnlyExerciseId ==
  [][\A w \in EditedWorkouts, e \in Exercises, n \in NewExerciseInputs :
       last'.op = "swap-exercise" /\ SwapExercise(w, e, n) =>
         IF ExerciseExists(n)
         THEN last'.status = 204 /\ SwapFrame(w, e, n)
         ELSE /\ sets' = sets /\ workouts' = workouts
              /\ last'.status = IF \E r \in DOMAIN sets : r.workoutId = w /\ r.exerciseId = e
                                THEN 500 ELSE 204]_vars

\* a swap has just rewritten rows of its pair while another set row exists
C10_Witness ==
  /\ last.op = "swap-exercise" /\ last.status = 204 /\ last.rowCount > 0
  /\ BagCardinality(sets) > last.rowCount

----------------------------------------------------------------------------
\* the filled set rows of pair (w, e) when workout w belongs to user u
FilledOf(u, w, e) ==
  {r \in DOMAIN sets : /\ r.workoutId = w /\ r.exerciseId = e
                       /\ r.reps # NULL /\ r.weight # NULL
                       /\ w \in DOMAIN workouts /\ workouts[w].userId = u}

\* C11: the best-set statistics of user U hold exactly one row for each
\* (workout, exercise) pair of U's workouts with at least one filled set and no
\* row for any other pair; the row's reps and weight are those of a filled set
\* of the pair whose reps * weight is the largest among the pair's filled sets,
\* and its count is the number of the pair's filled sets: unfilled sets and
\* other users' sets contribute nothing.
C11_BestSetPerPairByVolume ==
  [][\A u \in Users :
       (last'.op = "workout-sets" /\ WorkoutSets(u)) =>
         /\ \A w \in WorkoutIds, e \in Exercises :
              Cardinality({x \in last'.rows : x.workoutId = w /\ x.exerciseId = e})
                = IF FilledOf(u, w, e) # {} THEN 1 ELSE 0
         /\ \A x \in last'.rows :
              /\ \E r \in FilledOf(u, x.workoutId, x.exerciseId) :
                   /\ r.reps = x.reps
                   /\ r.weight = x.weight
                   /\ \A q \in FilledOf(u, x.workoutId, x.exerciseId) :
                        q.reps * q.weight <= r.reps * r.weight
              /\ x.totalSets =
                   BagCardinality(Where(sets, FilledOf(u, x.workoutId, x.exerciseId)))]_vars

\* the statistics were answered with the 5 x 100 set of a pair that also holds
\* a set of more weight (3 x 150) and a set of more reps (6 x 80)
C11_Witness ==
  /\ last.op = "workout-sets"
  /\ last.status = 200
  /\ \E x \in last.rows :
       /\ x.reps = 5 /\ x.weight = 100
       /\ \E q \in DOMAIN sets :
            /\ q.workoutId = x.workoutId /\ q.exerciseId = x.exerciseId
            /\ q.reps # NULL /\ q.weight > x.weight
       /\ \E q \in DOMAIN sets :
            /\ q.workoutId = x.workoutId /\ q.exerciseId = x.exerciseId
            /\ q.weight # NULL /\ q.reps > x.reps

----------------------------------------------------------------------------
\* C12: the statements of one PATCH /api/workout/:workoutId are independent.
\* (a) A statement that fails changes no row, takes back nothing the request's
\* other statements wrote and cancels none of them: the request reports the
\* error (500, once) while the statements still outstanding stay outstanding
\* and an insert that runs after the failure still adds its row.  (b) A Remove
\* Exercise or Swap Exercise that runs while statements of the request are
\* outstanding leaves them outstanding, so they execute around it.
C12_UpsertIsNotAtomic ==
  [][/\ \A s \in DOMAIN inflight.pending :
          (last'.op = "add-set" /\ last'.rowCount = 0 /\ AddSet(s)) =>
            /\ sets' = sets
            /\ workouts' = workouts
            /\ last'.status = IF inflight.failed THEN 0 ELSE 500
            /\ inflight'.pending = inflight.pending (-) Copies(s, 1)
     /\ \A s \in DOMAIN inflight.pending :
          (last'.op = "add-set" /\ last'.rowCount = 1 /\ inflight.failed /\ AddSet(s)) =>
            /\ sets' = sets (+) Copies(SetRow(inflight.workoutId, s.exerciseId,
                                                s.setOrder, s.reps, s.weight), 1)
            /\ last'.status = 0
     /\ (inflight.pending # EmptyBag
           /\ last'.op \in {"remove-exercise", "swap-exercise"}) =>
          inflight' = inflight]_vars

\* a request recording 3 x 150 as sets 1 and 2 of exercise 1 has reported an
\* error for its insert naming exercise 3; its first set was swapped to
\* exercise 2 before its second set was inserted, so both writes stay committed
\* and exercise 1 holds a setOrder 2 row and no setOrder 1 row
C12_Witness ==
  /\ last.op = "add-set"
  /\ last.status = 500
  /\ SetRow(1, 2, 1, 3, 150) \in DOMAIN sets
  /\ SetRow(1, 1, 2, 3, 150) \in DOMAIN sets
  /\ PairOrderCount(sets, 1, 1, 1) = 0

\* C13: each (workout, exercise) pair has at most one set row with setOrder 1.
C13_AtMostOneFirstSetPerPair ==
  \A w \in WorkoutIds, e \in Exercises : PairOrderCount(sets, w, e, 1) <= 1

====
